---- MODULE Spec2Model ----
(***************************************************************************)
(* A model of cryptoSuiteKit (src/src/crypto/suites.ts): the registry of   *)
(* suites, the factory getCryptoSuite and the three suites' operations.    *)
(*                                                                         *)
(* A JavaScript string is a sequence of one-character strings, so that     *)
(* length, startsWith and concatenation are computed as the code computes  *)
(* them, on keys of the real lengths (64, 66, 128 and 130 characters).     *)
(*                                                                         *)
(* The primitive provider (@noble/curves) is outside the repository.  Its  *)
(* hex and point codecs are modelled by what they do (hex is read in       *)
(* either case and written in lower case; a point is decoded only if it    *)
(* lies on the curve), over curves of the same shape as the real ones on a *)
(* small prime field: coordinates are still 32 bytes wide, and every       *)
(* coordinate that fits the field has 31 leading zero bytes.               *)
(***************************************************************************)
EXTENDS Integers, Sequences, FiniteSets, TLC

\* ------------------------------------------------------------------ bounds
\* Which prime of Primes is the field of the scaled-down curves.
FieldIdx == 1
\* How many x-coordinates of curve points the callers' keys are built from.
MaxPoints == 2
\* Private keys 1..MaxPriv and digests 1..MaxDigest are what callers sign.
MaxPriv == 2
MaxDigest == 2

\* Primes p for which y^2 = x^3 + 7 over GF(p) has a group of prime order, as
\* secp256k1 has: no point has y = 0 and every point generates the group.
Primes == <<13, 43, 61>>
P == Primes[FieldIdx]

\* ------------------------------------------------- lengths the code names
CompressedHexLen == 66
BodyHexLen == 128
UncompressedHexLen == 130
XOnlyHexLen == 64
EdHexLen == 64

\* ------------------------------------------------------- JavaScript strings
Str(n, c) == [i \in 1..n |-> c]
StartsWith(s, pre) ==
  /\ Len(s) >= Len(pre)
  /\ \A i \in 1..Len(pre) : s[i] = pre[i]

Str02 == <<"0", "2">>
Str03 == <<"0", "3">>
Str04 == <<"0", "4">>

\* ------------------------------------------------ the provider's hex codec
HexDigits == <<"0", "1", "2", "3", "4", "5", "6", "7", "8", "9",
               "a", "b", "c", "d", "e", "f">>
UpperDigits == <<"0", "1", "2", "3", "4", "5", "6", "7", "8", "9",
                 "A", "B", "C", "D", "E", "F">>
HexChars == {HexDigits[i] : i \in 1..16} \cup {UpperDigits[i] : i \in 1..16}
HexValues ==
  [c \in HexChars |-> (CHOOSE i \in 1..16 : HexDigits[i] = c \/ UpperDigits[i] = c) - 1]
HexValue(c) == HexValues[c]

\* hexToBytes accepts an even number of hex characters of either case.
IsHex(s) == Len(s) % 2 = 0 /\ \A i \in 1..Len(s) : s[i] \in HexChars
hexToBytes(s) ==
  [i \in 1..(Len(s) \div 2) |-> 16 * HexValue(s[2 * i - 1]) + HexValue(s[2 * i])]
\* bytesToHex writes two lower-case characters per byte.
bytesToHex(b) ==
  [i \in 1..(2 * Len(b)) |->
     HexDigits[(IF i % 2 = 1 THEN b[(i + 1) \div 2] \div 16
                             ELSE b[i \div 2] % 16) + 1]]
\* The same characters in upper case (what a caller may pass in).
ToUpper(s) ==
  [i \in 1..Len(s) |-> IF s[i] \in HexChars THEN UpperDigits[HexValue(s[i]) + 1] ELSE s[i]]

\* A 32-byte big-endian number: it is below the field's prime exactly when
\* the first 31 bytes are zero and the last is below the prime.
CoordBytes == XOnlyHexLen \div 2
Coord(v) == [i \in 1..CoordBytes |-> IF i = CoordBytes THEN v ELSE 0]
SmallBE(b) == \A i \in 1..(Len(b) - 1) : b[i] = 0
ValueBE(b) == b[Len(b)]
InFieldBE(b) == Len(b) > 0 /\ SmallBE(b) /\ ValueBE(b) < P
Slice(b, from, to) == [i \in 1..(to - from + 1) |-> b[from + i - 1]]

\* ------------------------------------- secp256k1, scaled: y^2 = x^3 + 7 mod P
OnCurve(x, y) == (y * y) % P = (x * x * x + 7) % P
CurvePoints == {pt \in [x : 0..(P - 1), y : 0..(P - 1)] : OnCurve(pt.x, pt.y)}
NoPoint == [ok |-> FALSE, x |-> 0, y |-> 0]
APoint(x, y) == [ok |-> TRUE, x |-> x, y |-> y]

\* Point.fromHex: 33 bytes with head 02 or 03 (x, and the parity of y), or 65
\* bytes with head 04 (x and y); anything else, and any point off the curve,
\* is refused.
secp256k1_Point_fromHex(hex) ==
  IF ~IsHex(hex) THEN NoPoint
  ELSE LET bytes == hexToBytes(hex)
           len == Len(bytes)
       IN IF len = 1 + CoordBytes /\ bytes[1] \in {2, 3}
          THEN LET xb == Slice(bytes, 2, len)
                   x == ValueBE(xb)
                   odd == bytes[1] % 2
               IN IF InFieldBE(xb) /\ \E y \in 0..(P - 1) : OnCurve(x, y)
                  THEN APoint(x, CHOOSE y \in 0..(P - 1) : OnCurve(x, y) /\ y % 2 = odd)
                  ELSE NoPoint
          ELSE IF len = 1 + 2 * CoordBytes /\ bytes[1] = 4
          THEN LET xb == Slice(bytes, 2, 1 + CoordBytes)
                   yb == Slice(bytes, 2 + CoordBytes, len)
               IN IF InFieldBE(xb) /\ InFieldBE(yb) /\ OnCurve(ValueBE(xb), ValueBE(yb))
                  THEN APoint(ValueBE(xb), ValueBE(yb))
                  ELSE NoPoint
          ELSE NoPoint

\* point.toBytes(isCompressed)
point_toBytes(pt, isCompressed) ==
  IF isCompressed THEN <<2 + (pt.y % 2)>> \o Coord(pt.x)
  ELSE <<4>> \o Coord(pt.x) \o Coord(pt.y)

\* The group law, for the public key of a private key.
Infinity == [inf |-> TRUE, x |-> 0, y |-> 0]
Affine(x, y) == [inf |-> FALSE, x |-> x, y |-> y]
InvMod(a) == CHOOSE b \in 1..(P - 1) : (a * b) % P = 1
Add(p, q) ==
  IF p.inf THEN q
  ELSE IF q.inf THEN p
  ELSE IF p.x = q.x /\ (p.y + q.y) % P = 0 THEN Infinity
  ELSE LET lam == IF p.x = q.x
                  THEN (3 * p.x * p.x * InvMod((2 * p.y) % P)) % P
                  ELSE (((q.y + P - p.y) % P) * InvMod((q.x + P - p.x) % P)) % P
           x3 == (lam * lam + 2 * P - p.x - q.x) % P
           y3 == (lam * ((p.x + P - x3) % P) + P - p.y) % P
       IN Affine(x3, y3)
RECURSIVE Mul(_, _)
Mul(k, p) == IF k = 0 THEN Infinity ELSE Add(p, Mul(k - 1, p))
Generator ==
  LET g == CHOOSE pt \in CurvePoints :
             \A q \in CurvePoints : pt.x < q.x \/ (pt.x = q.x /\ pt.y <= q.y)
  IN Affine(g.x, g.y)
GroupOrder == Cardinality(CurvePoints) + 1
PublicPoint == [d \in 1..(GroupOrder - 1) |-> Mul(d, Generator)]

\* A private key is 32 bytes holding a scalar in 1..GroupOrder-1.
IsPrivateKey(hex) ==
  /\ IsHex(hex)
  /\ Len(hex) = 2 * CoordBytes
  /\ SmallBE(hexToBytes(hex))
  /\ ValueBE(hexToBytes(hex)) \in 1..(GroupOrder - 1)

\* ----------------- ed25519, scaled: -x^2 + y^2 = 1 + 2 x^2 y^2 mod P
EdOnCurve(x, y) == (y * y) % P = (x * x + 1 + 2 * x * x * y * y) % P
EdPoints == {pt \in [x : 0..(P - 1), y : 0..(P - 1)] : EdOnCurve(pt.x, pt.y)}
\* 32 bytes, little-endian y, the top bit of the last byte the parity of x.
EdEncode(pt) ==
  [i \in 1..CoordBytes |->
     IF i = 1 THEN pt.y ELSE IF i = CoordBytes THEN 128 * (pt.x % 2) ELSE 0]
ed25519_Point_fromHex(hex) ==
  IF ~IsHex(hex) \/ Len(hex) # 2 * CoordBytes THEN NoPoint
  ELSE LET bytes == hexToBytes(hex)
           xOdd == bytes[CoordBytes] \div 128
           y == bytes[1]
           small == /\ \A i \in 2..(CoordBytes - 1) : bytes[i] = 0
                    /\ bytes[CoordBytes] % 128 = 0
       IN IF small /\ y < P /\ \E x \in 0..(P - 1) : EdOnCurve(x, y)
          THEN IF \E x \in 0..(P - 1) : EdOnCurve(x, y) /\ x % 2 = xOdd
               THEN APoint(CHOOSE x \in 0..(P - 1) : EdOnCurve(x, y) /\ x % 2 = xOdd, y)
               ELSE NoPoint
          ELSE NoPoint
\* The public key of a seed (the provider derives it by hashing the seed; here
\* the seed's last byte picks one of the curve's points).
EdRank(pt) ==
  Cardinality({q \in EdPoints : q.y < pt.y \/ (q.y = pt.y /\ q.x < pt.x)})
EdPublic(seedBytes) ==
  CHOOSE pt \in EdPoints : EdRank(pt) = seedBytes[CoordBytes] % Cardinality(EdPoints)

\* ------------------------------------------- the provider's sign and verify
\* The signature arithmetic is the provider's.  The model keeps what the
\* suites can observe of it: a signature is 64 bytes, determined by the
\* scheme, the public key of the private key and the digest; verify accepts
\* exactly that signature; malformed arguments are refused.
MsgTag(bytes) == IF Len(bytes) = 0 THEN 0 ELSE bytes[Len(bytes)]
NoBytes == [ok |-> FALSE, bytes |-> <<>>]
SomeBytes(b) == [ok |-> TRUE, bytes |-> b]

EcdsaSignature(Q, msgBytes) ==
  Coord(Q.x) \o Coord((2 * MsgTag(msgBytes) + (Q.y % 2)) % 256)
SchnorrSignature(Q, msgBytes) == Coord(Q.x) \o Coord(MsgTag(msgBytes))
EdSignature(A, msgBytes) == EdEncode(A) \o Coord(MsgTag(msgBytes))

\* secp256k1.sign(msgHash, privKey): a Signature, read by toCompactHex().
secp256k1_sign(msgHash, privKey) ==
  IF IsHex(msgHash) /\ IsPrivateKey(privKey)
  THEN SomeBytes(EcdsaSignature(PublicPoint[ValueBE(hexToBytes(privKey))],
                                hexToBytes(msgHash)))
  ELSE NoBytes
\* schnorr.sign(message, privateKey)
schnorr_sign(message, privateKey) ==
  IF IsHex(message) /\ IsPrivateKey(privateKey)
  THEN SomeBytes(SchnorrSignature(PublicPoint[ValueBE(hexToBytes(privateKey))],
                                  hexToBytes(message)))
  ELSE NoBytes
\* ed25519.sign(message, privateKey): any 32 bytes are a private key.
ed25519_sign(message, privateKey) ==
  IF IsHex(message) /\ IsHex(privateKey) /\ Len(privateKey) = 2 * CoordBytes
  THEN SomeBytes(EdSignature(EdPublic(hexToBytes(privateKey)), hexToBytes(message)))
  ELSE NoBytes

\* What verify does with a signature of the wrong length, and with a public key
\* that is no point, differs between the provider's schemes and releases: it
\* returns false or it throws.  A provider variant fixes both.
ProviderVariants == [badSignature : {"throw", "false"}, badKey : {"throw", "false"}]
VerifyThrows == [ok |-> FALSE, valid |-> FALSE]
VerifyReturns(b) == [ok |-> TRUE, valid |-> b]
Refuses(how) == IF how = "throw" THEN VerifyThrows ELSE VerifyReturns(FALSE)

secp256k1_verify(variant, signature, msgHash, publicKey) ==
  IF ~(IsHex(signature) /\ IsHex(msgHash) /\ IsHex(publicKey)) THEN VerifyThrows
  ELSE IF Len(signature) # 4 * CoordBytes THEN Refuses(variant.badSignature)
  ELSE LET Q == secp256k1_Point_fromHex(publicKey)
       IN IF ~Q.ok THEN Refuses(variant.badKey)
          ELSE VerifyReturns(hexToBytes(signature) = EcdsaSignature(Q, hexToBytes(msgHash)))
\* schnorr.verify takes the 32-byte x of the key and lifts it to the point of even y.
schnorr_verify(variant, signature, message, publicKey) ==
  IF ~(IsHex(signature) /\ IsHex(message) /\ IsHex(publicKey)) THEN VerifyThrows
  ELSE IF Len(signature) # 4 * CoordBytes THEN Refuses(variant.badSignature)
  ELSE LET Q == secp256k1_Point_fromHex(Str02 \o publicKey)
       IN IF ~Q.ok THEN Refuses(variant.badKey)
          ELSE VerifyReturns(hexToBytes(signature) = SchnorrSignature(Q, hexToBytes(message)))
ed25519_verify(variant, signature, message, publicKey) ==
  IF ~(IsHex(signature) /\ IsHex(message) /\ IsHex(publicKey)) THEN VerifyThrows
  ELSE IF Len(signature) # 4 * CoordBytes THEN Refuses(variant.badSignature)
  ELSE LET A == ed25519_Point_fromHex(publicKey)
       IN IF ~A.ok THEN Refuses(variant.badKey)
          ELSE VerifyReturns(hexToBytes(signature) = EdSignature(A, hexToBytes(message)))

\* ------------------------------------------------------ results and errors
Undefined == "undefined"
NoMessage == [template |-> "", strs |-> <<>>, nums |-> <<>>]
\* A template literal: its text, and the values interpolated into it.
Message(template, strs, nums) == [template |-> template, strs |-> strs, nums |-> nums]
Blank ==
  [kind |-> "none", errName |-> "", errMsg |-> NoMessage, suite |-> "",
   publicKey |-> <<>>, format |-> "", signature |-> <<>>, valid |-> FALSE]
KeyValidationError(message) ==
  [Blank EXCEPT !.kind = "throw", !.errName = "KeyValidationError", !.errMsg = message]
\* Whatever the provider throws: an error of its own, never a KeyValidationError.
ProviderError ==
  [Blank EXCEPT !.kind = "throw", !.errName = "Error",
                !.errMsg = Message("(the provider's message)", <<>>, <<>>)]
ReturnSuite(suite) == [Blank EXCEPT !.kind = "return", !.suite = suite]
ReturnKey(publicKey, format) ==
  [Blank EXCEPT !.kind = "return", !.publicKey = publicKey, !.format = format]
ReturnSignature(hex) == [Blank EXCEPT !.kind = "return", !.signature = hex]
ReturnBoolean(b) == [Blank EXCEPT !.kind = "return", !.valid = b]

\* One call of the provider with strings of the caller: the function and its
\* arguments, in order.
ProviderCall(fn, args) == [fn |-> fn, args |-> args]
\* What a suite's method did: its outcome and the provider calls it made.
Did(outcome, calls) == [outcome |-> outcome, calls |-> calls]

\* ------------------------------------------------------------ the ECDSA suite
EcdsaFormatMessage ==
  Message("Invalid ECDSA public key format. Expected 33 or 65 bytes.", <<>>, <<>>)

\* A slip: the prefix of a 130-character key is not looked at.
EcdsaInputFormat_AnyPrefix(pubKeyHex) ==
  IF Len(pubKeyHex) = CompressedHexLen
     /\ (StartsWith(pubKeyHex, Str02) \/ StartsWith(pubKeyHex, Str03))
  THEN "compressed"
  ELSE IF Len(pubKeyHex) = BodyHexLen \/ Len(pubKeyHex) = UncompressedHexLen
  THEN "uncompressed"
  ELSE Undefined
EcdsaInputFormat(pubKeyHex) ==
  IF Len(pubKeyHex) = CompressedHexLen
     /\ (StartsWith(pubKeyHex, Str02) \/ StartsWith(pubKeyHex, Str03))
  THEN "compressed"
  ELSE IF Len(pubKeyHex) = BodyHexLen
          \/ (Len(pubKeyHex) = UncompressedHexLen /\ StartsWith(pubKeyHex, Str04))
  THEN "uncompressed"
  ELSE Undefined

\* options?.outputFormat || 'compressed'
EcdsaDesiredFormat(outputFormat) ==
  IF outputFormat = Undefined THEN "compressed" ELSE outputFormat
\* A slip: the flag is inverted.
EcdsaShouldCompress_Inverted(outputFormat) ==
  EcdsaDesiredFormat(outputFormat) # "compressed"
EcdsaShouldCompress(outputFormat) == EcdsaDesiredFormat(outputFormat) = "compressed"

EcdsaFromHexArgument(pubKeyHex) ==
  IF EcdsaInputFormat(pubKeyHex) = "uncompressed" /\ Len(pubKeyHex) = BodyHexLen
  THEN Str04 \o pubKeyHex
  ELSE pubKeyHex

Ecdsa_validateAndNormalizePublicKey(pubKeyHex, outputFormat) ==
  IF EcdsaInputFormat(pubKeyHex) = Undefined
  THEN Did(KeyValidationError(EcdsaFormatMessage), <<>>)
  ELSE LET arg == EcdsaFromHexArgument(pubKeyHex)
           point == secp256k1_Point_fromHex(arg)
           calls == <<ProviderCall("secp256k1.Point.fromHex", <<arg>>)>>
       IN IF ~point.ok
          THEN Did(ProviderError, calls)
          ELSE Did(ReturnKey(bytesToHex(point_toBytes(point, EcdsaShouldCompress(outputFormat))),
                             EcdsaDesiredFormat(outputFormat)),
                   calls)

Ecdsa_sign(privateKey, messageHash) ==
  LET sig == secp256k1_sign(messageHash, privateKey)
      calls == <<ProviderCall("secp256k1.sign", <<messageHash, privateKey>>)>>
  IN IF sig.ok THEN Did(ReturnSignature(bytesToHex(sig.bytes)), calls)
     ELSE Did(ProviderError, calls)

\* A slip: a failure of the provider is turned into false.
Ecdsa_verify_Swallowing(variant, signature, messageHash, publicKey) ==
  LET res == secp256k1_verify(variant, signature, messageHash, publicKey)
      calls == <<ProviderCall("secp256k1.verify", <<signature, messageHash, publicKey>>)>>
  IN Did(ReturnBoolean(res.ok /\ res.valid), calls)
Ecdsa_verify(variant, signature, messageHash, publicKey) ==
  LET res == secp256k1_verify(variant, signature, messageHash, publicKey)
      calls == <<ProviderCall("secp256k1.verify", <<signature, messageHash, publicKey>>)>>
  IN IF res.ok THEN Did(ReturnBoolean(res.valid), calls)
     ELSE Did(ProviderError, calls)

\* ---------------------------------------------------------- the Schnorr suite
SchnorrLengthMessage(length) ==
  Message("Invalid Schnorr (BIP340) public key length. Expected 32 bytes (64 hex chars), got ${pubKeyHex.length}.",
          <<>>, <<length>>)

\* A slip: the x-only key is lifted to a point, as the other suites decode theirs.
Schnorr_validateAndNormalizePublicKey_Lifting(pubKeyHex, outputFormat) ==
  IF Len(pubKeyHex) # XOnlyHexLen
  THEN Did(KeyValidationError(SchnorrLengthMessage(Len(pubKeyHex))), <<>>)
  ELSE LET calls == <<ProviderCall("secp256k1.Point.fromHex", <<Str02 \o pubKeyHex>>)>>
       IN IF secp256k1_Point_fromHex(Str02 \o pubKeyHex).ok
          THEN Did(ReturnKey(pubKeyHex, "schnorr"), calls)
          ELSE Did(KeyValidationError(SchnorrLengthMessage(Len(pubKeyHex))), calls)
Schnorr_validateAndNormalizePublicKey(pubKeyHex, outputFormat) ==
  IF Len(pubKeyHex) # XOnlyHexLen
  THEN Did(KeyValidationError(SchnorrLengthMessage(Len(pubKeyHex))), <<>>)
  ELSE Did(ReturnKey(pubKeyHex, "schnorr"), <<>>)

Schnorr_sign(privateKey, messageHash) ==
  LET sig == schnorr_sign(messageHash, privateKey)
      calls == <<ProviderCall("schnorr.sign", <<messageHash, privateKey>>)>>
  IN IF sig.ok THEN Did(ReturnSignature(bytesToHex(sig.bytes)), calls)
     ELSE Did(ProviderError, calls)

Schnorr_verify(variant, signature, messageHash, publicKey) ==
  LET res == schnorr_verify(variant, signature, messageHash, publicKey)
      calls == <<ProviderCall("schnorr.verify", <<signature, messageHash, publicKey>>)>>
  IN IF res.ok THEN Did(ReturnBoolean(res.valid), calls)
     ELSE Did(ProviderError, calls)

\* ------------------------------------------------------------ the EdDSA suite
EddsaLengthMessage(length) ==
  Message("Invalid EdDSA (Ed25519) public key length. Expected 32 bytes (64 hex chars), got ${pubKeyHex.length}.",
          <<>>, <<length>>)
EddsaPointMessage ==
  Message("Invalid Ed25519 public key. Not a valid point on the curve.", <<>>, <<>>)

\* A slip: the decoding is not wrapped in try/catch.
Eddsa_validateAndNormalizePublicKey_Uncaught(pubKeyHex, outputFormat) ==
  IF Len(pubKeyHex) # EdHexLen
  THEN Did(KeyValidationError(EddsaLengthMessage(Len(pubKeyHex))), <<>>)
  ELSE LET point == ed25519_Point_fromHex(pubKeyHex)
           calls == <<ProviderCall("ed25519.Point.fromHex", <<pubKeyHex>>)>>
       IN IF ~point.ok
          THEN Did(ProviderError, calls)
          ELSE Did(ReturnKey(pubKeyHex, "compressed"), calls)
Eddsa_validateAndNormalizePublicKey(pubKeyHex, outputFormat) ==
  IF Len(pubKeyHex) # EdHexLen
  THEN Did(KeyValidationError(EddsaLengthMessage(Len(pubKeyHex))), <<>>)
  ELSE LET point == ed25519_Point_fromHex(pubKeyHex)
           calls == <<ProviderCall("ed25519.Point.fromHex", <<pubKeyHex>>)>>
       IN IF ~point.ok
          THEN Did(KeyValidationError(EddsaPointMessage), calls)
          ELSE Did(ReturnKey(pubKeyHex, "compressed"), calls)

Eddsa_sign(privateKey, messageHash) ==
  LET sig == ed25519_sign(messageHash, privateKey)
      calls == <<ProviderCall("ed25519.sign", <<messageHash, privateKey>>)>>
  IN IF sig.ok THEN Did(ReturnSignature(bytesToHex(sig.bytes)), calls)
     ELSE Did(ProviderError, calls)

Eddsa_verify(variant, signature, messageHash, publicKey) ==
  LET res == ed25519_verify(variant, signature, messageHash, publicKey)
      calls == <<ProviderCall("ed25519.verify", <<signature, messageHash, publicKey>>)>>
  IN IF res.ok THEN Did(ReturnBoolean(res.valid), calls)
     ELSE Did(ProviderError, calls)

\* ----------------------------------------------- the interface and the factory
SupportedCurve == {"secp256k1", "ed25519"}
SupportedScheme == {"ECDSA", "Schnorr", "EdDSA"}
PublicKeyFormat == {"compressed", "uncompressed", "schnorr"}
\* options?.outputFormat: a format, or undefined when none is given.
OutputFormatOption == PublicKeyFormat \cup {Undefined}
Suites == {"EcdsaSecp256k1Suite", "SchnorrSecp256k1Suite", "EddsaEd25519Suite"}

\* ICryptoSuite: the method of the suite object the caller holds.
validateAndNormalizePublicKey(suite, pubKeyHex, outputFormat) ==
  CASE suite = "EcdsaSecp256k1Suite" -> Ecdsa_validateAndNormalizePublicKey(pubKeyHex, outputFormat)
    [] suite = "SchnorrSecp256k1Suite" -> Schnorr_validateAndNormalizePublicKey(pubKeyHex, outputFormat)
    [] suite = "EddsaEd25519Suite" -> Eddsa_validateAndNormalizePublicKey(pubKeyHex, outputFormat)
sign(suite, privateKey, messageHash) ==
  CASE suite = "EcdsaSecp256k1Suite" -> Ecdsa_sign(privateKey, messageHash)
    [] suite = "SchnorrSecp256k1Suite" -> Schnorr_sign(privateKey, messageHash)
    [] suite = "EddsaEd25519Suite" -> Eddsa_sign(privateKey, messageHash)
verify(suite, variant, signature, messageHash, publicKey) ==
  CASE suite = "EcdsaSecp256k1Suite" -> Ecdsa_verify(variant, signature, messageHash, publicKey)
    [] suite = "SchnorrSecp256k1Suite" -> Schnorr_verify(variant, signature, messageHash, publicKey)
    [] suite = "EddsaEd25519Suite" -> Eddsa_verify(variant, signature, messageHash, publicKey)

\* The registry as the module sets it up.
InitialSuites ==
  [secp256k1 |-> [ECDSA |-> "EcdsaSecp256k1Suite", Schnorr |-> "SchnorrSecp256k1Suite"],
   ed25519 |-> [EdDSA |-> "EddsaEd25519Suite"]]

\* table[curve]?.[scheme]
Lookup(table, curve, scheme) ==
  IF curve \in DOMAIN table /\ scheme \in DOMAIN table[curve]
  THEN table[curve][scheme]
  ELSE Undefined

UnsupportedMessage(scheme, curve) ==
  Message("The scheme '${params.scheme}' is not supported for the curve '${params.curve}'.",
          <<scheme, curve>>, <<>>)

\* A slip: a scheme the curve does not have falls back to the ECDSA suite.
getCryptoSuite_Fallback(table, curve, scheme) ==
  IF Lookup(table, curve, scheme) = Undefined
  THEN ReturnSuite("EcdsaSecp256k1Suite")
  ELSE ReturnSuite(Lookup(table, curve, scheme))
getCryptoSuite(table, curve, scheme) ==
  IF Lookup(table, curve, scheme) = Undefined
  THEN KeyValidationError(UnsupportedMessage(scheme, curve))
  ELSE ReturnSuite(Lookup(table, curve, scheme))

\* ------------------------------------------------------ what callers pass in
XsOnCurve == {pt.x : pt \in CurvePoints}
\* An x whose hex form has a letter, so that its key has an upper-case form.
LetterX == CHOOSE x \in XsOnCurve :
             /\ bytesToHex(<<x>>) # ToUpper(bytesToHex(<<x>>))
             /\ \A z \in XsOnCurve : z < x => bytesToHex(<<z>>) = ToUpper(bytesToHex(<<z>>))
ValidXs ==
  {x \in XsOnCurve : Cardinality({z \in XsOnCurve : z < x}) < MaxPoints} \cup {LetterX}
OffCurveX == CHOOSE x \in 0..(P - 1) :
               x \notin XsOnCurve /\ \A z \in 0..(P - 1) : z < x => z \in XsOnCurve
\* x-coordinates: of curve points, of no curve point, and outside the field.
SampleXs == ValidXs \cup {OffCurveX, P}
SamplePoints == {pt \in CurvePoints : pt.x \in ValidXs}
\* (x, y) pairs: curve points, and one pair off the curve.
SamplePairs == SamplePoints \cup {[x |-> OffCurveX, y |-> 1]}
EdYsOnCurve == {pt.y : pt \in EdPoints}
EdSamplePoints ==
  {pt \in EdPoints : Cardinality({z \in EdYsOnCurve : z < pt.y}) < MaxPoints}
EdOffCurveY == CHOOSE y \in 0..(P - 1) :
                 y \notin EdYsOnCurve /\ \A z \in 0..(P - 1) : z < y => z \in EdYsOnCurve

CompressedKeys == {bytesToHex(<<h>> \o Coord(x)) : h \in {2, 3, 4}, x \in SampleXs}
BodyKeys == {bytesToHex(Coord(pt.x) \o Coord(pt.y)) : pt \in SamplePairs}
UncompressedKeys == {bytesToHex(<<h>>) \o body : h \in {2, 4}, body \in BodyKeys}
XOnlyKeys == {bytesToHex(Coord(x)) : x \in SampleXs}
EdKeys ==
  {bytesToHex(EdEncode(pt)) : pt \in EdSamplePoints}
    \cup {bytesToHex(EdEncode([x |-> odd, y |-> EdOffCurveY])) : odd \in {0, 1}}
    \cup {bytesToHex(EdEncode([x |-> 1, y |-> 1]))}
LowerCaseKeys == CompressedKeys \cup BodyKeys \cup UncompressedKeys \cup XOnlyKeys \cup EdKeys
\* Strings that are no hex, of every length a suite accepts.
NotHexKeys ==
  {Str(XOnlyHexLen, "g"), Str02 \o Str(XOnlyHexLen, "g"), Str(BodyHexLen, "g"),
   Str04 \o Str(BodyHexLen, "g")}
\* Strings of lengths no suite accepts.
OddLengthKeys ==
  {<<>>, Str(XOnlyHexLen - 1, "0"), Str(XOnlyHexLen + 1, "0"),
   Str02 \o Str(XOnlyHexLen + 1, "0"), Str04 \o Str(BodyHexLen + 1, "0")}
PubKeyInputs ==
  LowerCaseKeys \cup {ToUpper(k) : k \in LowerCaseKeys} \cup NotHexKeys \cup OddLengthKeys

\* Private keys: zero (no scalar, yet a seed), 1..MaxPriv, and one too short.
PrivateKeyInputs ==
  {bytesToHex(Coord(d)) : d \in 0..MaxPriv} \cup {Str(XOnlyHexLen - 2, "0")}
DigestInputs == {bytesToHex(Coord(m)) : m \in 1..MaxDigest}
\* Signatures: every one a suite returns for these keys and digests, and one
\* that is a byte short.
SignatureInputs ==
  {bytesToHex(secp256k1_sign(m, d).bytes) :
     <<m, d>> \in {md \in DigestInputs \X PrivateKeyInputs : secp256k1_sign(md[1], md[2]).ok}}
    \cup {bytesToHex(schnorr_sign(m, d).bytes) :
     <<m, d>> \in {md \in DigestInputs \X PrivateKeyInputs : schnorr_sign(md[1], md[2]).ok}}
    \cup {bytesToHex(ed25519_sign(m, d).bytes) :
     <<m, d>> \in {md \in DigestInputs \X PrivateKeyInputs : ed25519_sign(md[1], md[2]).ok}}
    \cup {Str(BodyHexLen - 2, "0")}
\* Public keys for verify: those of the private keys, in each suite's formats,
\* one that is no point and one that is no hex.
VerifyKeyInputs ==
  {bytesToHex(point_toBytes(PublicPoint[d], c)) : d \in 1..MaxPriv, c \in BOOLEAN}
    \cup {bytesToHex(Coord(PublicPoint[d].x)) : d \in 1..MaxPriv}
    \cup {bytesToHex(EdEncode(EdPublic(Coord(d)))) : d \in 0..MaxPriv}
    \cup {bytesToHex(<<2>> \o Coord(OffCurveX)), Str(XOnlyHexLen, "g")}

Inputs(keys, formats, privs, digests, sigs, pubs) ==
  [keys |-> keys, formats |-> formats, privs |-> privs, digests |-> digests,
   sigs |-> sigs, pubs |-> pubs]
AllInputs ==
  Inputs(PubKeyInputs, OutputFormatOption, PrivateKeyInputs, DigestInputs,
         SignatureInputs, VerifyKeyInputs)

\* ------------------------------------------------------------------- state
VARIABLES
  cryptoSuites,   \* the registry: curve -> scheme -> suite
  provider,       \* the provider variant installed
  held,           \* per caller: the suite it got from getCryptoSuite
  call,           \* per caller: its latest call and arguments
  outcome,        \* per caller: what that call returned or threw
  providerCalls,  \* per caller: the provider calls that call made
  prev            \* per caller: the call whose returned key it passed on

vars == <<cryptoSuites, provider, held, call, outcome, providerCalls, prev>>

NoCall ==
  [op |-> "none", curve |-> "", scheme |-> "", suite |-> "", pubKeyHex |-> <<>>,
   outputFormat |-> "", privateKey |-> <<>>, messageHash |-> <<>>, signature |-> <<>>,
   publicKey |-> <<>>]
NoPrev == [call |-> NoCall, outcome |-> Blank]

\* Calls are synchronous and run to completion: each is one step.  A caller
\* makes a call when it has none to look at, and then lets go of the result.
Idle(c) == call[c] = NoCall
Finish(c, theCall, did, thePrev) ==
  /\ call' = [call EXCEPT ![c] = theCall]
  /\ outcome' = [outcome EXCEPT ![c] = did.outcome]
  /\ providerCalls' = [providerCalls EXCEPT ![c] = did.calls]
  /\ prev' = [prev EXCEPT ![c] = thePrev]

\* A slip: a pair that is asked for and missing is entered in the registry.
GetCryptoSuite_Registering(c) ==
  /\ Idle(c)
  /\ \E curve \in SupportedCurve, scheme \in SupportedScheme :
       LET res == getCryptoSuite(cryptoSuites, curve, scheme)
       IN /\ Finish(c, [NoCall EXCEPT !.op = "getCryptoSuite", !.curve = curve,
                                       !.scheme = scheme],
                    Did(res, <<>>), NoPrev)
          /\ held' = [held EXCEPT ![c] = IF res.kind = "return" THEN res.suite ELSE @]
          /\ cryptoSuites' =
               IF res.kind = "return" THEN cryptoSuites
               ELSE [cryptoSuites EXCEPT ![curve] =
                       [s \in DOMAIN @ \cup {scheme} |->
                          IF s \in DOMAIN @ THEN @[s] ELSE "EcdsaSecp256k1Suite"]]
          /\ UNCHANGED provider

\* getCryptoSuite, called with a curve and a scheme of the declared types
\* SupportedCurve and SupportedScheme.
GetCryptoSuite(c) ==
  /\ Idle(c)
  /\ \E curve \in SupportedCurve, scheme \in SupportedScheme :
       LET res == getCryptoSuite(cryptoSuites, curve, scheme)
       IN /\ Finish(c, [NoCall EXCEPT !.op = "getCryptoSuite", !.curve = curve,
                                       !.scheme = scheme],
                    Did(res, <<>>), NoPrev)
          /\ held' = [held EXCEPT ![c] = IF res.kind = "return" THEN res.suite ELSE @]
          /\ UNCHANGED <<cryptoSuites, provider>>

ValidateAndNormalizePublicKey(c, in) ==
  /\ Idle(c)
  /\ held[c] \in Suites
  /\ \E pubKeyHex \in in.keys, outputFormat \in in.formats :
       Finish(c, [NoCall EXCEPT !.op = "validateAndNormalizePublicKey", !.suite = held[c],
                                !.pubKeyHex = pubKeyHex, !.outputFormat = outputFormat],
              validateAndNormalizePublicKey(held[c], pubKeyHex, outputFormat), NoPrev)
  /\ UNCHANGED <<cryptoSuites, provider, held>>

\* The caller passes the key a validation returned to the same suite again.
NormalizeAgain(c, in) ==
  /\ held[c] \in Suites
  /\ call[c].op = "validateAndNormalizePublicKey"
  /\ call[c].suite = held[c]
  /\ outcome[c].kind = "return"
  /\ prev[c] = NoPrev
  /\ \E outputFormat \in in.formats :
       Finish(c, [NoCall EXCEPT !.op = "validateAndNormalizePublicKey", !.suite = held[c],
                                !.pubKeyHex = outcome[c].publicKey,
                                !.outputFormat = outputFormat],
              validateAndNormalizePublicKey(held[c], outcome[c].publicKey, outputFormat),
              [call |-> call[c], outcome |-> outcome[c]])
  /\ UNCHANGED <<cryptoSuites, provider, held>>

Sign(c, in) ==
  /\ Idle(c)
  /\ held[c] \in Suites
  /\ \E privateKey \in in.privs, messageHash \in in.digests :
       Finish(c, [NoCall EXCEPT !.op = "sign", !.suite = held[c],
                                !.privateKey = privateKey, !.messageHash = messageHash],
              sign(held[c], privateKey, messageHash), NoPrev)
  /\ UNCHANGED <<cryptoSuites, provider, held>>

Verify(c, in) ==
  /\ Idle(c)
  /\ held[c] \in Suites
  /\ \E signature \in in.sigs, messageHash \in in.digests, publicKey \in in.pubs :
       Finish(c, [NoCall EXCEPT !.op = "verify", !.suite = held[c], !.signature = signature,
                                !.messageHash = messageHash, !.publicKey = publicKey],
              verify(held[c], provider, signature, messageHash, publicKey), NoPrev)
  /\ UNCHANGED <<cryptoSuites, provider, held>>

\* The caller is done with the result of its call.
Continue(c) ==
  /\ ~Idle(c)
  /\ Finish(c, NoCall, Did(Blank, <<>>), NoPrev)
  /\ UNCHANGED <<cryptoSuites, provider, held>>

InitFor(callers) ==
  /\ cryptoSuites = InitialSuites
  /\ provider \in ProviderVariants
  /\ held = [c \in callers |-> Undefined]
  /\ call = [c \in callers |-> NoCall]
  /\ outcome = [c \in callers |-> Blank]
  /\ providerCalls = [c \in callers |-> <<>>]
  /\ prev = [c \in callers |-> NoPrev]

\* One caller, every input.
Init == InitFor({"a"})
Next ==
  \/ GetCryptoSuite("a")
  \/ ValidateAndNormalizePublicKey("a", AllInputs)
  \/ NormalizeAgain("a", AllInputs)
  \/ Sign("a", AllInputs)
  \/ Verify("a", AllInputs)
  \/ Continue("a")
Spec == Init /\ [][Next]_vars

\* Two callers, a few inputs: the calls of one caller fall between those of
\* the other in every order.
SharedInputs ==
  Inputs({bytesToHex(point_toBytes(PublicPoint[1], TRUE)), Str(XOnlyHexLen, "g"),
          bytesToHex(EdEncode(EdPublic(Coord(1))))},
         {Undefined, "uncompressed"},
         {bytesToHex(Coord(1)), Str(XOnlyHexLen - 2, "0")},
         {bytesToHex(Coord(1))},
         {bytesToHex(secp256k1_sign(bytesToHex(Coord(1)), bytesToHex(Coord(1))).bytes),
          Str(BodyHexLen - 2, "0")},
         {bytesToHex(point_toBytes(PublicPoint[1], TRUE)), Str(XOnlyHexLen, "g")})
Callers == {"a", "b"}
InitShared == InitFor(Callers)
NextShared ==
  \E c \in Callers :
    \/ GetCryptoSuite(c)
    \/ ValidateAndNormalizePublicKey(c, SharedInputs)
    \/ NormalizeAgain(c, SharedInputs)
    \/ Sign(c, SharedInputs)
    \/ Verify(c, SharedInputs)
    \/ Continue(c)
SpecShared == InitShared /\ [][NextShared]_vars

\* -------------------------------------------------------------- properties
IsValidate(c, suite) ==
  call[c].op = "validateAndNormalizePublicKey" /\ call[c].suite = suite
IsKeyValidationError(o) == o.kind = "throw" /\ o.errName = "KeyValidationError"
ToLower(s) ==
  [i \in 1..Len(s) |-> IF s[i] \in HexChars THEN HexDigits[HexValue(s[i]) + 1] ELSE s[i]]
LooksCompressed(k) ==
  Len(k) = CompressedHexLen /\ (StartsWith(k, Str02) \/ StartsWith(k, Str03))

\* C1: getCryptoSuite returns a suite for exactly the pairs (secp256k1, ECDSA),
\* (secp256k1, Schnorr) and (ed25519, EdDSA); for every other pair of the
\* declared curves and schemes it returns no suite and throws a
\* KeyValidationError whose message names the requested scheme and curve.
C1_FactoryPairs ==
  \A c \in DOMAIN call :
    call[c].op = "getCryptoSuite" =>
      IF <<call[c].curve, call[c].scheme>> \in
           {<<"secp256k1", "ECDSA">>, <<"secp256k1", "Schnorr">>, <<"ed25519", "EdDSA">>}
      THEN outcome[c].kind = "return" /\ outcome[c].suite \in Suites
      ELSE /\ IsKeyValidationError(outcome[c])
           /\ outcome[c].suite = ""
           /\ outcome[c].errMsg.strs = <<call[c].scheme, call[c].curve>>
C1_Witness ==
  \E c \in DOMAIN call :
    /\ call[c].op = "getCryptoSuite"
    /\ call[c].curve = "ed25519"
    /\ call[c].scheme = "Schnorr"
    /\ IsKeyValidationError(outcome[c])

\* C2: in every suite, validateAndNormalizePublicKey returns a normalized key
\* or throws a KeyValidationError; nothing else escapes it.
C2_ValidationTotal ==
  \A c \in DOMAIN call :
    call[c].op = "validateAndNormalizePublicKey" =>
      outcome[c].kind = "return" \/ IsKeyValidationError(outcome[c])

\* C3: the ECDSA suite reads the format off length and prefix alone: 66
\* characters starting 02 or 03, and 130 starting 04, go to the point decoder
\* as they are; 128 characters go to it with 04 put in front; everything else
\* throws the 'Expected 33 or 65 bytes' KeyValidationError before any decoding.
C3_EcdsaFormatDetection ==
  \A c \in DOMAIN call :
    IsValidate(c, "EcdsaSecp256k1Suite") =>
      LET k == call[c].pubKeyHex
      IN IF LooksCompressed(k) \/ (Len(k) = UncompressedHexLen /\ StartsWith(k, Str04))
         THEN providerCalls[c] = <<ProviderCall("secp256k1.Point.fromHex", <<k>>)>>
         ELSE IF Len(k) = BodyHexLen
         THEN providerCalls[c] = <<ProviderCall("secp256k1.Point.fromHex", <<Str04 \o k>>)>>
         ELSE /\ providerCalls[c] = <<>>
              /\ IsKeyValidationError(outcome[c])
              /\ outcome[c].errMsg.template =
                   "Invalid ECDSA public key format. Expected 33 or 65 bytes."
C3_Witness ==
  \E c \in DOMAIN call :
    /\ IsValidate(c, "EcdsaSecp256k1Suite")
    /\ Len(call[c].pubKeyHex) = BodyHexLen
    /\ outcome[c].kind = "return"
    /\ Len(providerCalls[c][1].args[1]) = UncompressedHexLen

\* C4: in the ECDSA suite every returned key is serialized as its format tag
\* says, the tag is the requested format ('compressed' when none is given) and
\* is 'compressed' (33 bytes) or 'uncompressed' (65 bytes), whatever encoding
\* of the point came in.
C4_EcdsaOutputFormat ==
  \A c \in DOMAIN call :
    IsValidate(c, "EcdsaSecp256k1Suite") /\ outcome[c].kind = "return" =>
      /\ outcome[c].format =
           (IF call[c].outputFormat = Undefined THEN "compressed" ELSE call[c].outputFormat)
      /\ outcome[c].format \in {"compressed", "uncompressed"}
      /\ outcome[c].format = "compressed" => LooksCompressed(outcome[c].publicKey)
      /\ outcome[c].format = "uncompressed" =>
           /\ Len(outcome[c].publicKey) = UncompressedHexLen
           /\ StartsWith(outcome[c].publicKey, Str04)

\* The two calls of C5: a valid compressed key k normalized to 'uncompressed',
\* and the result normalized to 'compressed'.
RoundTrip(c) ==
  /\ IsValidate(c, "EcdsaSecp256k1Suite")
  /\ call[c].outputFormat = "compressed"
  /\ prev[c].call.op = "validateAndNormalizePublicKey"
  /\ prev[c].call.suite = "EcdsaSecp256k1Suite"
  /\ prev[c].call.outputFormat = "uncompressed"
  /\ LooksCompressed(prev[c].call.pubKeyHex)
  /\ prev[c].outcome.kind = "return"
  /\ call[c].pubKeyHex = prev[c].outcome.publicKey

\* C5 as stated: the round trip returns exactly the string k.
C5_RoundTripExact ==
  \A c \in DOMAIN call :
    RoundTrip(c) =>
      outcome[c].kind = "return" /\ outcome[c].publicKey = prev[c].call.pubKeyHex

\* C5 as amended: the round trip returns k in lower-case hex, which is k
\* itself when k has no upper-case digit.
C5_RoundTripLowerCase ==
  \A c \in DOMAIN call :
    RoundTrip(c) =>
      /\ outcome[c].kind = "return"
      /\ outcome[c].format = "compressed"
      /\ outcome[c].publicKey = ToLower(prev[c].call.pubKeyHex)
C5_Witness ==
  \E c \in DOMAIN call :
    /\ RoundTrip(c)
    /\ outcome[c].kind = "return"
    /\ StartsWith(prev[c].call.pubKeyHex, Str03)
    /\ prev[c].call.pubKeyHex = ToLower(prev[c].call.pubKeyHex)
    /\ Len(call[c].pubKeyHex) = UncompressedHexLen

\* C6: the Schnorr suite throws a KeyValidationError giving the expected 64
\* characters and the actual length for every input not 64 characters long,
\* and returns every 64-character input unchanged with tag 'schnorr', whatever
\* its content and the outputFormat, without asking the provider about it.
C6_SchnorrLengthOnly ==
  \A c \in DOMAIN call :
    IsValidate(c, "SchnorrSecp256k1Suite") =>
      /\ providerCalls[c] = <<>>
      /\ IF Len(call[c].pubKeyHex) = 64
         THEN outcome[c] = ReturnKey(call[c].pubKeyHex, "schnorr")
         ELSE /\ IsKeyValidationError(outcome[c])
              /\ outcome[c].errMsg.template =
                   "Invalid Schnorr (BIP340) public key length. Expected 32 bytes (64 hex chars), got ${pubKeyHex.length}."
              /\ outcome[c].errMsg.nums = <<Len(call[c].pubKeyHex)>>
C6_Witness ==
  \E c \in DOMAIN call :
    /\ IsValidate(c, "SchnorrSecp256k1Suite")
    /\ call[c].pubKeyHex = Str(XOnlyHexLen, "g")
    /\ call[c].outputFormat = "uncompressed"
    /\ outcome[c].kind = "return"
    /\ outcome[c].format = "schnorr"

\* C7: the EdDSA suite throws a KeyValidationError about the length, before
\* any decoding, for every input not 64 characters long; a 64-character input
\* the provider cannot decode throws the 'Not a valid point on the curve'
\* KeyValidationError; one it decodes is returned unchanged with tag
\* 'compressed', whatever the outputFormat.
C7_EddsaValidation ==
  \A c \in DOMAIN call :
    IsValidate(c, "EddsaEd25519Suite") =>
      LET k == call[c].pubKeyHex
      IN IF Len(k) # 64
         THEN /\ providerCalls[c] = <<>>
              /\ IsKeyValidationError(outcome[c])
              /\ outcome[c].errMsg.template =
                   "Invalid EdDSA (Ed25519) public key length. Expected 32 bytes (64 hex chars), got ${pubKeyHex.length}."
              /\ outcome[c].errMsg.nums = <<Len(k)>>
         ELSE /\ providerCalls[c] = <<ProviderCall("ed25519.Point.fromHex", <<k>>)>>
              /\ IF ed25519_Point_fromHex(k).ok
                 THEN outcome[c] = ReturnKey(k, "compressed")
                 ELSE /\ IsKeyValidationError(outcome[c])
                      /\ outcome[c].errMsg.template =
                           "Invalid Ed25519 public key. Not a valid point on the curve."
C7_Witness ==
  \E c \in DOMAIN call :
    /\ IsValidate(c, "EddsaEd25519Suite")
    /\ Len(call[c].pubKeyHex) = 64
    /\ IsHex(call[c].pubKeyHex)
    /\ IsKeyValidationError(outcome[c])
    /\ providerCalls[c] # <<>>

\* C9: the registry is what it was at the start, and two calls with the same
\* arguments have the same outcome, whoever makes them and whatever was
\* called before or in between.
C9_Stateless ==
  /\ cryptoSuites = InitialSuites
  /\ \A c, d \in DOMAIN call :
       call[c] = call[d] /\ ~Idle(c) =>
         outcome[c] = outcome[d] /\ providerCalls[c] = providerCalls[d]
C9_Witness ==
  /\ call["a"].op = "getCryptoSuite"
  /\ outcome["a"].kind = "throw"
  /\ call["b"] = call["a"]
  /\ held["a"] # held["b"]

\* The provider function a suite's sign and verify hand their arguments to.
ProviderName(suite) ==
  CASE suite = "EcdsaSecp256k1Suite" -> "secp256k1"
    [] suite = "SchnorrSecp256k1Suite" -> "schnorr"
    [] suite = "EddsaEd25519Suite" -> "ed25519"
ProviderSign(suite, messageHash, privateKey) ==
  CASE suite = "EcdsaSecp256k1Suite" -> secp256k1_sign(messageHash, privateKey)
    [] suite = "SchnorrSecp256k1Suite" -> schnorr_sign(messageHash, privateKey)
    [] suite = "EddsaEd25519Suite" -> ed25519_sign(messageHash, privateKey)
ProviderVerify(suite, signature, messageHash, publicKey) ==
  CASE suite = "EcdsaSecp256k1Suite" -> secp256k1_verify(provider, signature, messageHash, publicKey)
    [] suite = "SchnorrSecp256k1Suite" -> schnorr_verify(provider, signature, messageHash, publicKey)
    [] suite = "EddsaEd25519Suite" -> ed25519_verify(provider, signature, messageHash, publicKey)

\* C10: sign and verify make one provider call with the caller's strings
\* unchanged and do nothing else: what the provider returns is returned (a
\* signature as hex), and what the provider throws reaches the caller as the
\* provider's error, not as a KeyValidationError and not as false.
C10_PassThrough ==
  \A c \in DOMAIN call :
    /\ call[c].op = "sign" =>
         LET r == ProviderSign(call[c].suite, call[c].messageHash, call[c].privateKey)
         IN /\ providerCalls[c] =
                 <<[fn |-> ProviderName(call[c].suite) \o ".sign",
                    args |-> <<call[c].messageHash, call[c].privateKey>>]>>
            /\ outcome[c] = IF r.ok THEN ReturnSignature(bytesToHex(r.bytes)) ELSE ProviderError
    /\ call[c].op = "verify" =>
         LET r == ProviderVerify(call[c].suite, call[c].signature, call[c].messageHash,
                                 call[c].publicKey)
         IN /\ providerCalls[c] =
                 <<[fn |-> ProviderName(call[c].suite) \o ".verify",
                    args |-> <<call[c].signature, call[c].messageHash, call[c].publicKey>>]>>
            /\ outcome[c] = IF r.ok THEN ReturnBoolean(r.valid) ELSE ProviderError
C10_Witness ==
  \E c \in DOMAIN call :
    /\ call[c].op = "verify"
    /\ Len(call[c].signature) # BodyHexLen
    /\ outcome[c] = ProviderError

====
